---- MODULE Spec2Model ----
(***************************************************************************)
(* Model of chatbot_app.py: the /chat request handler, the lazily built    *)
(* knowledge base it shares between request threads, the streaming reply   *)
(* generator and the conversation-summary logger.                          *)
(*                                                                         *)
(* Text is a sequence of tokens.  Everything outside the process (file     *)
(* system, HTTP, the generation service, the spreadsheet) answers          *)
(* nondeterministically with one of the outcomes the code distinguishes.   *)
(***************************************************************************)
EXTENDS Integers, Sequences, FiniteSets, TLC

VARIABLES
    MODEL_CONFIGURED,       \* line 27/37: set once at import time
    GSHEET_CLIENT,          \* line 28/48: TRUE when a client was authorised
    KNOWLEDGE_BASE_TEXT,    \* line 26
    knowledge_base_loaded,  \* line 29
    sheet,                  \* rows of the spreadsheet "Chatbot Conversation Logs"
    nreq,                   \* number of /chat requests received so far
    rq                      \* per request thread: position and locals of chat()

vars == <<MODEL_CONFIGURED, GSHEET_CLIENT, KNOWLEDGE_BASE_TEXT,
          knowledge_base_loaded, sheet, nreq, rq>>

-----------------------------------------------------------------------------
(* Bounds *)

MaxRequests == 3    \* requests received in one run of the process
NumUrls == 2        \* lines of urls_to_scrape.txt
MaxChunks == 2      \* chunks one generation stream delivers

Threads == {"t1", "t2"}     \* request threads of the WSGI server

-----------------------------------------------------------------------------
(* The environment *)

LocalFiles == <<"venue.txt", "notes.md">>      \* os.listdir(KNOWLEDGE_DIR)
UrlNames == <<"u1", "u2", "u3", "u4">>
URLS == SubSeq(UrlNames, 1, NumUrls)           \* non-blank lines of URL_CONFIG_FILE

IsReadable(filename) == filename \in {"venue.txt", "menu.pdf"}   \* .txt or .pdf

FileOutcomes == {"text", "empty", "error"}
DirOutcomes == {"absent", "present"}       \* os.path.isdir(KNOWLEDGE_DIR)
CfgOutcomes == {"ok", "missing", "unreadable"}
\* requests.get / raise_for_status / content-type / extraction
FetchOutcomes == {"html", "pdf", "blank", "other_type", "request_exception",
                  "extract_error"}
GenOutcomes == {"ok", "raise"}

Messages == { [present |-> FALSE, text |-> <<>>],
              [present |-> TRUE,  text |-> <<>>],
              [present |-> TRUE,  text |-> <<"q">>] }

Histories == { << [role |-> "user", text |-> <<"h">>] >>,
               << [text |-> <<"h">>] >> }

Fragments == { <<>>, <<"a">>, <<"b", "c">> }    \* chunk.text values

SEP == "---"                                    \* "\n\n---\n\n"
NL == "\n"
APOLOGY == <<"I'm sorry, an error occurred while I was thinking. Please try again.">>
NONE == "<None>"                                \* Python None / JSON null
NA == "N/A"

-----------------------------------------------------------------------------
(* Pure helpers *)

RECURSIVE Join(_, _)
\* sep.join(parts), parts a sequence of texts
Join(parts, sep) ==
    IF parts = <<>> THEN <<>>
    ELSE IF Len(parts) = 1 THEN parts[1]
    ELSE parts[1] \o <<sep>> \o Join(Tail(parts), sep)

\* line 162: KeyError when a history entry lacks 'role' or 'text'
HistoryOk(chat_history) ==
    \A i \in 1..Len(chat_history) :
        {"role", "text"} \subseteq DOMAIN chat_history[i]

HistoryLine(msg) ==
    <<IF msg.role = "user" THEN "User:" ELSE "Assistant:">> \o msg.text

HistoryText(chat_history) ==
    Join([i \in 1..Len(chat_history) |-> HistoryLine(chat_history[i])], NL)

\* line 244
FinalHistory(history_text, full_response_text) ==
    history_text \o <<NL, "Assistant:">> \o full_response_text

\* line 158: `not user_question`
NoMessage(user_question) ==
    ~user_question.present \/ user_question.text = <<>>

SourceText(name) == <<name>>

\* lines 54-74.  [raised, text]: an exception other than
\* requests.RequestException is not caught here.
read_content_from_url(url, outcome) ==
    CASE outcome = "request_exception" -> [raised |-> FALSE, text |-> <<>>]
      [] outcome = "extract_error"     -> [raised |-> TRUE,  text |-> <<>>]
      [] outcome = "other_type"        -> [raised |-> FALSE, text |-> <<>>]
      [] outcome = "blank"             -> [raised |-> FALSE, text |-> <<>>]
      [] outcome = "pdf"               -> [raised |-> FALSE, text |-> SourceText(url)]
      [] outcome = "html"              -> [raised |-> FALSE, text |-> SourceText(url)]

\* lines 83-91, one directory entry: the text it contributes
ReadLocalFile(filename, outcome) ==
    IF IsReadable(filename) /\ outcome = "text" THEN SourceText(filename) ELSE <<>>

RECURSIVE ReadLocalFiles(_, _, _)
\* lines 82-91: all_text after the directory loop, from entry i on
ReadLocalFiles(all_text, outcomes, i) ==
    IF i > Len(LocalFiles) THEN all_text
    ELSE LET text == ReadLocalFile(LocalFiles[i], outcomes[i])
         IN ReadLocalFiles(IF text # <<>> THEN Append(all_text, text) ELSE all_text,
                           outcomes, i + 1)

-----------------------------------------------------------------------------
(* log_conversation_summary(): the text the summarisation call returns *)

Tok(k, v) == [k |-> k, v |-> v]
LB == Tok("{", "")
RB == Tok("}", "")
Prose == Tok("prose", "")
FieldKeys == {"summary", "contact", "details"}

RawTexts ==
    { <<Prose>>,
      <<LB, Prose>>,
      <<LB, Prose, RB>>,
      <<Prose, LB, Tok("summary", "Wedding enquiry"), Tok("contact", NONE), RB, Prose>>,
      <<LB, Tok("summary", NONE), Tok("contact", NONE), Tok("details", NONE), RB>> }

\* str.find: 0-based index of the first occurrence, -1 when there is none
Find(text, ch) ==
    LET hits == {i \in 1..Len(text) : text[i].k = ch}
    IN IF hits = {} THEN -1
       ELSE (CHOOSE i \in hits : \A j \in hits : i <= j) - 1

\* str.rfind: 0-based index of the last occurrence, -1 when there is none
RFind(text, ch) ==
    LET hits == {i \in 1..Len(text) : text[i].k = ch}
    IN IF hits = {} THEN -1
       ELSE (CHOOSE i \in hits : \A j \in hits : i >= j) - 1

\* text[start:end] for start, end >= 0
Slice(text, start, end) == SubSeq(text, start + 1, end)

\* json.loads on a text that should hold one flat object
json_loads(text) ==
    LET n == Len(text)
        ok == /\ n >= 2
              /\ text[1] = LB
              /\ text[n] = RB
              /\ \A i \in 2..(n - 1) : text[i].k \in FieldKeys
              /\ \A i, j \in 2..(n - 1) : text[i].k = text[j].k => i = j
        keys == {text[i].k : i \in 2..(n - 1)}
    IN [ok |-> ok,
        value |-> IF ok
                  THEN [key \in keys |->
                          text[CHOOSE i \in 2..(n - 1) : text[i].k = key].v]
                  ELSE <<>>]

\* dict.get(key, default)
Get(d, key, default) == IF key \in DOMAIN d THEN d[key] ELSE default

\* lines 121-138: [raised, row]
LeadRow(raw_text) ==
    LET json_start_index == Find(raw_text, "{")
        json_end_index == RFind(raw_text, "}") + 1
        located == json_start_index # -1 /\ json_end_index # -1
        parsed == json_loads(Slice(raw_text, json_start_index, json_end_index))
        lead_data == IF located
                     THEN parsed.value
                     ELSE [key \in FieldKeys |->
                             IF key = "summary"
                             THEN "Could not summarize conversation." ELSE NA]
    IN IF located /\ ~parsed.ok
       THEN [raised |-> TRUE, row |-> <<>>]
       ELSE [raised |-> FALSE,
             row |-> <<"timestamp", Get(lead_data, "summary", NA),
                       Get(lead_data, "contact", NA),
                       Get(lead_data, "details", NA)>>]

-----------------------------------------------------------------------------
(* Request state *)

Fresh ==
    [ pc |-> "idle",
      user_question |-> [present |-> FALSE, text |-> <<>>],
      chat_history |-> <<>>,
      all_text |-> <<>>,
      url_i |-> 0,                 \* URLs fetched so far by this build
      urls_to_scrape |-> <<>>,
      entered |-> "no",            \* load_knowledge_base: "no", "noop", "build"
      raised |-> "none",           \* where an exception came from
      status |-> "none",           \* "400", "500", "200", "unhandled"
      npulled |-> 0,               \* chunks taken from the stream so far
      chunk |-> <<>>,
      full_response_text |-> <<>>,
      body |-> <<>>,               \* fragments written to the response
      log_calls |-> <<>>,          \* arguments of log_conversation_summary
      raw_text |-> <<>>,
      summarized |-> FALSE,        \* line 119 returned
      sink_up |-> FALSE,           \* the spreadsheet accepts an append
      rows |-> <<>> ]              \* rows this request appended

Init ==
    /\ MODEL_CONFIGURED \in BOOLEAN
    /\ GSHEET_CLIENT \in BOOLEAN
    /\ KNOWLEDGE_BASE_TEXT = <<>>
    /\ knowledge_base_loaded = FALSE
    /\ sheet = <<>>
    /\ nreq = 0
    /\ rq = [t \in Threads |-> Fresh]

Set(t, r) == rq' = [rq EXCEPT ![t] = r]

Globals == <<MODEL_CONFIGURED, GSHEET_CLIENT, KNOWLEDGE_BASE_TEXT,
             knowledge_base_loaded, sheet, nreq>>

-----------------------------------------------------------------------------
(* chat(): lines 150-158 *)

\* A request arrives at a free thread.  chat() does not look at the body
\* before line 155, so the body is drawn there; a request that ends before
\* line 155 draws it when it ends.
Receive(t) ==
    /\ rq[t].pc \in {"idle", "done"}
    /\ nreq < MaxRequests
    /\ Set(t, [Fresh EXCEPT !.pc = "chat152"])
    /\ nreq' = nreq + 1
    /\ UNCHANGED <<MODEL_CONFIGURED, GSHEET_CLIENT, KNOWLEDGE_BASE_TEXT,
                   knowledge_base_loaded, sheet>>

Chat152(t) ==
    /\ rq[t].pc = "chat152"
    /\ Set(t, [rq[t] EXCEPT !.pc = IF ~knowledge_base_loaded THEN "load79"
                                                              ELSE "chat154"])
    /\ UNCHANGED Globals

-----------------------------------------------------------------------------
(* load_knowledge_base(): lines 76-103 *)

\* load_knowledge_base returns to chat(): its locals are gone
Return(r) ==
    [r EXCEPT !.pc = "chat154", !.all_text = <<>>, !.url_i = 0,
              !.urls_to_scrape = <<>>]

\* line 79 without its early return
Load79_NoGuard(t) ==
    /\ rq[t].pc = "load79"
    /\ Set(t, [rq[t] EXCEPT !.pc = "files81", !.all_text = <<>>,
                            !.entered = IF knowledge_base_loaded THEN "noop"
                                                                 ELSE "build"])
    /\ UNCHANGED Globals

\* lines 78-80
Load79(t) ==
    /\ rq[t].pc = "load79"
    /\ IF knowledge_base_loaded
       THEN Set(t, [rq[t] EXCEPT !.pc = "chat154", !.entered = "noop"])
       ELSE Set(t, [rq[t] EXCEPT !.pc = "files81", !.all_text = <<>>,
                                 !.entered = "build"])
    /\ UNCHANGED Globals

\* lines 81-91: the whole directory loop; every per-file exception is caught
Files81(t) ==
    /\ rq[t].pc = "files81"
    /\ \E d \in DirOutcomes, o \in [1..Len(LocalFiles) -> FileOutcomes] :
         Set(t, [rq[t] EXCEPT
                   !.pc = "cfg92",
                   !.all_text = IF d = "present" THEN ReadLocalFiles(@, o, 1) ELSE @])
    /\ UNCHANGED Globals

\* lines 92-94 and 98-99: only FileNotFoundError is caught
Cfg92(t) ==
    /\ rq[t].pc = "cfg92"
    /\ \E c \in CfgOutcomes :
         CASE c = "ok" ->
                Set(t, [rq[t] EXCEPT !.urls_to_scrape = URLS,
                                     !.pc = IF URLS = <<>> THEN "join100"
                                                           ELSE "fetch96"])
           [] c = "missing" ->
                Set(t, [rq[t] EXCEPT !.pc = "join100"])
           [] c = "unreadable" ->
                \E m \in Messages :
                  Set(t, [Fresh EXCEPT !.pc = "done", !.status = "unhandled",
                                       !.raised = "urlcfg", !.entered = "build",
                                       !.user_question = m])
    /\ UNCHANGED Globals

\* lines 95-97: one iteration of the URL loop
Fetch96(t) ==
    /\ rq[t].pc = "fetch96"
    /\ LET url == rq[t].urls_to_scrape[rq[t].url_i + 1] IN
       \E o \in FetchOutcomes :
         LET r == read_content_from_url(url, o) IN
         IF r.raised
         THEN \E m \in Messages :
                Set(t, [Fresh EXCEPT !.pc = "done", !.status = "unhandled",
                                     !.raised = "fetch", !.entered = "build",
                                     !.user_question = m])
         ELSE Set(t, [rq[t] EXCEPT
                        !.all_text = IF r.text # <<>> THEN Append(@, r.text) ELSE @,
                        !.url_i = @ + 1,
                        !.pc = IF rq[t].url_i + 1 = Len(rq[t].urls_to_scrape)
                               THEN "join100" ELSE "fetch96"])
    /\ UNCHANGED Globals

\* line 100
Join100(t) ==
    /\ rq[t].pc = "join100"
    /\ KNOWLEDGE_BASE_TEXT' = Join(rq[t].all_text, SEP)
    /\ Set(t, [rq[t] EXCEPT !.pc = "load101"])
    /\ UNCHANGED <<MODEL_CONFIGURED, GSHEET_CLIENT, knowledge_base_loaded, sheet, nreq>>

\* lines 101-103 with the test of line 101 dropped
Load101_Always(t) ==
    /\ rq[t].pc = "load101"
    /\ knowledge_base_loaded' = TRUE
    /\ Set(t, Return(rq[t]))
    /\ UNCHANGED <<MODEL_CONFIGURED, GSHEET_CLIENT, KNOWLEDGE_BASE_TEXT, sheet, nreq>>

\* lines 101-103: the test reads the global, not all_text
Load101(t) ==
    /\ rq[t].pc = "load101"
    /\ knowledge_base_loaded' =
         IF KNOWLEDGE_BASE_TEXT # <<>> THEN TRUE ELSE knowledge_base_loaded
    /\ Set(t, Return(rq[t]))
    /\ UNCHANGED <<MODEL_CONFIGURED, GSHEET_CLIENT, KNOWLEDGE_BASE_TEXT, sheet, nreq>>

\* lines 154-158 and 251: the body of the request is read here
Chat154(t) ==
    /\ rq[t].pc = "chat154"
    /\ \E m \in Messages, h \in Histories :
         LET r == [rq[t] EXCEPT !.user_question = m] IN
         IF ~MODEL_CONFIGURED
         THEN Set(t, [r EXCEPT !.pc = "done", !.status = "500"])
         ELSE IF NoMessage(m)
         THEN Set(t, [r EXCEPT !.pc = "done", !.status = "400"])
         ELSE Set(t, [r EXCEPT !.pc = "gen162", !.status = "200",
                               !.chat_history = h])
    /\ UNCHANGED Globals

-----------------------------------------------------------------------------
(* generate_stream(): lines 160-249 *)

\* lines 161-235: history_text, the prompt and the generation call
Gen162(t) ==
    /\ rq[t].pc = "gen162"
    /\ IF ~HistoryOk(rq[t].chat_history)
       THEN Set(t, [rq[t] EXCEPT !.pc = "except247", !.raised = "history"])
       ELSE \E g \in GenOutcomes :
              IF g = "ok"
              THEN Set(t, [rq[t] EXCEPT !.pc = "iter238"])
              ELSE Set(t, [rq[t] EXCEPT !.pc = "except247", !.raised = "generate"])
    /\ UNCHANGED Globals

\* lines 238-240 with the yield of line 241 left out: the reply is only accumulated
Iter238_Buffered(t) ==
    /\ rq[t].pc = "iter238"
    /\ \/ /\ rq[t].npulled < MaxChunks
          /\ \E f \in Fragments :
               Set(t, [rq[t] EXCEPT !.npulled = @ + 1,
                                    !.full_response_text = @ \o f])
       \/ Set(t, [rq[t] EXCEPT !.pc = "log244", !.npulled = 0])
       \/ Set(t, [rq[t] EXCEPT !.pc = "except247", !.raised = "stream",
                                !.npulled = 0])
    /\ UNCHANGED Globals

\* lines 238-240: take the next chunk from the stream
Iter238(t) ==
    /\ rq[t].pc = "iter238"
    /\ \/ /\ rq[t].npulled < MaxChunks
          /\ \E f \in Fragments :
               IF f # <<>>
               THEN Set(t, [rq[t] EXCEPT !.npulled = @ + 1,
                                         !.chunk = f,
                                         !.full_response_text = @ \o f,
                                         !.pc = "yield241"])
               ELSE Set(t, [rq[t] EXCEPT !.npulled = @ + 1, !.chunk = f])
       \/ Set(t, [rq[t] EXCEPT !.pc = "log244", !.npulled = 0])
       \/ Set(t, [rq[t] EXCEPT !.pc = "except247", !.raised = "stream",
                                !.npulled = 0])
    /\ UNCHANGED Globals

\* line 241: the fragment goes out before the loop resumes
Yield241(t) ==
    /\ rq[t].pc = "yield241"
    /\ Set(t, [rq[t] EXCEPT !.body = Append(@, rq[t].chunk), !.pc = "iter238"])
    /\ UNCHANGED Globals

\* lines 244-245 and 105-143: the whole of log_conversation_summary
Log244(t) ==
    /\ rq[t].pc = "log244"
    /\ LET final_history == FinalHistory(HistoryText(rq[t].chat_history),
                                         rq[t].full_response_text)
           called == [rq[t] EXCEPT !.pc = "end", !.log_calls = Append(@, final_history)]
       IN IF ~GSHEET_CLIENT
          THEN Set(t, called) /\ sheet' = sheet
          ELSE \E g \in GenOutcomes, raw \in RawTexts, up \in BOOLEAN :
                 IF g = "raise"
                 THEN Set(t, called) /\ sheet' = sheet
                 ELSE LET lr == LeadRow(raw)
                          ran == [called EXCEPT !.raw_text = raw, !.summarized = TRUE,
                                                !.sink_up = up]
                      IN IF lr.raised \/ ~up
                         THEN Set(t, ran) /\ sheet' = sheet
                         ELSE /\ Set(t, [ran EXCEPT !.rows = Append(@, lr.row)])
                              /\ sheet' = Append(sheet, lr.row)
    /\ UNCHANGED <<MODEL_CONFIGURED, GSHEET_CLIENT, KNOWLEDGE_BASE_TEXT,
                   knowledge_base_loaded, nreq>>

\* lines 247-249 answering with the exception's own text
Except247_Leaky(t) ==
    /\ rq[t].pc = "except247"
    /\ Set(t, [rq[t] EXCEPT !.body = Append(@, <<rq[t].raised>>), !.pc = "end"])
    /\ UNCHANGED Globals

\* lines 247-249
Except247(t) ==
    /\ rq[t].pc = "except247"
    /\ Set(t, [rq[t] EXCEPT !.body = Append(@, APOLOGY), !.pc = "end"])
    /\ UNCHANGED Globals

\* the generator is exhausted: the response ends
Close(t) ==
    /\ rq[t].pc = "end"
    /\ Set(t, [Fresh EXCEPT !.pc = "done", !.status = rq[t].status,
                            !.user_question = rq[t].user_question,
                            !.raised = rq[t].raised])
    /\ UNCHANGED Globals

-----------------------------------------------------------------------------

\* chat() up to the return of line 251, with the knowledge-base build
Handler(t) ==
    \/ Receive(t)
    \/ Chat152(t)
    \/ Load79(t)
    \/ Files81(t)
    \/ Cfg92(t)
    \/ Fetch96(t)
    \/ Join100(t)
    \/ Load101(t)
    \/ Chat154(t)

\* the response body: generate_stream() driven by the server
Generator(t) ==
    \/ Gen162(t)
    \/ Iter238(t)
    \/ Yield241(t)
    \/ Log244(t)
    \/ Except247(t)
    \/ Close(t)

Next == \E t \in Threads : Handler(t) \/ Generator(t)

\* the whole server, requests handled concurrently
Spec == Init /\ [][Next]_vars

NextHandler == \E t \in Threads : Handler(t)

\* the request handlers alone, concurrently: a response that has started
\* streaming keeps its thread
SpecHandler == Init /\ [][NextHandler]_vars

NextSequential == Handler("t1") \/ Generator("t1")

\* the whole server with one request thread
SpecSequential == Init /\ [][NextSequential]_vars

-----------------------------------------------------------------------------
(* Properties *)

Changed(t) == rq'[t] # rq[t]

RECURSIVE Flatten(_)
\* the concatenation of a sequence of fragments
Flatten(parts) ==
    IF parts = <<>> THEN <<>> ELSE parts[1] \o Flatten(Tail(parts))

Answered(r) == r.pc = "done"

\* C1: every request without a message (field missing, or empty) that chat()
\* answers itself is answered 400, never 500, whether or not the generation
\* model was configured at startup.
C1_MissingMessageIs400 ==
    \A t \in Threads :
        (Answered(rq[t]) /\ NoMessage(rq[t].user_question)
            /\ rq[t].status # "unhandled")
        => rq[t].status = "400"

\* C2: once knowledge_base_loaded is true, KNOWLEDGE_BASE_TEXT never changes
\* again, under every interleaving of concurrent requests.
C2_TextFrozenOnceLoaded ==
    [][knowledge_base_loaded => KNOWLEDGE_BASE_TEXT' = KNOWLEDGE_BASE_TEXT]_vars

\* C3: a request with a non-empty message never ends with an exception
\* escaping the handler, whatever the outcome of each external step.
C3_NoUnhandledFault ==
    \A t \in Threads :
        (Answered(rq[t]) /\ ~NoMessage(rq[t].user_question))
        => rq[t].status # "unhandled"

\* C4: a failure on one source never leaves the Content Fetcher as an
\* exception and never aborts the build: the build reaches line 100 only
\* after fetching every listed URL, and no request ends inside the URL loop.
C4_FetchFailureContained ==
    \A t \in Threads :
        /\ rq[t].raised # "fetch"
        /\ rq[t].pc \in {"join100", "load101"}
           => rq[t].url_i = Len(rq[t].urls_to_scrape)

\* inside load_knowledge_base, past line 79
Building(r) == r.pc \in {"files81", "cfg92", "fetch96", "join100", "load101"}

\* C5: once the loaded flag is set, a request that reaches line 152 or enters
\* load_knowledge_base (line 79) goes straight on to line 154: it never comes
\* to a place where a file is read or a URL fetched, and the step leaves the
\* corpus text and the flag as they were.
C5_LoadedBuildIsNoOp ==
    [][\A t \in Threads :
         /\ (rq[t].pc \in {"chat152", "load79"} /\ knowledge_base_loaded /\ Changed(t))
            => /\ rq'[t].pc = "chat154"
               /\ rq'[t].all_text = <<>>
               /\ rq'[t].url_i = 0
               /\ KNOWLEDGE_BASE_TEXT' = KNOWLEDGE_BASE_TEXT
               /\ knowledge_base_loaded' = knowledge_base_loaded
         /\ rq'[t].entered = "noop" => ~Building(rq'[t])
      ]_vars

\* C5 witness: two requests raced; one set the flag, the other then entered
\* load_knowledge_base and returned at line 79.
C5_Witness ==
    \E t \in Threads :
        /\ rq[t].entered = "noop"
        /\ rq[t].pc = "chat154"
        /\ knowledge_base_loaded

PastBuild(r) == r.entered = "build" /\ ~Building(r) /\ r.status # "unhandled"

\* C9: the loaded flag turns true only in a step that finds the corpus
\* non-empty; a build that ends on an empty corpus leaves the flag as it was;
\* and while the flag is false every request enters the build at line 152
\* and line 79 and reaches line 100 only after fetching every listed URL.
C9_LoadedOnlyIfNonEmpty ==
    [][/\ (~knowledge_base_loaded /\ knowledge_base_loaded')
          => (KNOWLEDGE_BASE_TEXT # <<>> /\ KNOWLEDGE_BASE_TEXT' = KNOWLEDGE_BASE_TEXT)
       /\ knowledge_base_loaded => knowledge_base_loaded'
       /\ \A t \in Threads :
            /\ (rq[t].pc = "load101" /\ KNOWLEDGE_BASE_TEXT = <<>> /\ Changed(t))
               => knowledge_base_loaded' = knowledge_base_loaded
            /\ (rq[t].pc = "chat152" /\ ~knowledge_base_loaded /\ Changed(t))
               => rq'[t].pc = "load79"
            /\ (rq[t].pc = "load79" /\ ~knowledge_base_loaded /\ Changed(t))
               => rq'[t].pc = "files81"
            /\ (rq[t].pc = "cfg92" /\ rq'[t].pc = "fetch96")
               => rq'[t].urls_to_scrape = URLS /\ rq'[t].url_i = 0
            /\ (rq[t].pc = "fetch96" /\ Changed(t) /\ rq'[t].pc # "done")
               => /\ rq'[t].url_i = rq[t].url_i + 1
                  /\ rq'[t].pc = "join100" <=> rq'[t].url_i = Len(URLS)
      ]_vars

\* C9 witness: one request has finished a build that left the corpus empty
\* and the flag false, and another request is in the URL loop again.
C9_Witness ==
    \E t, u \in Threads :
        /\ t # u
        /\ PastBuild(rq[u])
        /\ ~knowledge_base_loaded
        /\ KNOWLEDGE_BASE_TEXT = <<>>
        /\ rq[t].pc = "fetch96"
        /\ rq[t].url_i = 1

Streaming(r) == r.pc \in {"iter238", "yield241", "log244"}

\* C6: while the stream runs, what has been sent is what has been
\* accumulated, fragment by fragment in arrival order, and the fragment just
\* taken is sent before the next is taken; the logger is called once, after
\* the last fragment, with "<history>\nAssistant: <all fragments sent>"; and
\* a reply that streamed without error ends only after the logger returned.
C6_StreamRelayThenLog ==
    [][\A t \in Threads :
         LET r == rq'[t] IN
         /\ Streaming(r) => r.log_calls = <<>>
         /\ r.pc \in {"iter238", "log244"}
            => Flatten(r.body) = r.full_response_text
         /\ r.pc = "yield241"
            => /\ r.chunk # <<>>
               /\ Flatten(r.body) \o r.chunk = r.full_response_text
         /\ (rq[t].pc = "yield241" /\ Changed(t))
            => r.body = Append(rq[t].body, rq[t].chunk)
         /\ (r.pc = "end" /\ r.raised = "none")
            => /\ r.log_calls =
                    <<FinalHistory(HistoryText(r.chat_history), Flatten(r.body))>>
               /\ \A i \in 1..Len(r.body) : r.body[i] \in Fragments \ {<<>>}
               /\ rq[t].pc \in {"log244", "end"}
         /\ (r.pc = "done" /\ rq[t].pc # "done" /\ r.status = "200" /\ r.raised = "none")
            => rq[t].pc = "end" /\ Len(rq[t].log_calls) = 1
      ]_vars

\* C6 witness: two different fragments were relayed and the logger has
\* returned.
C6_Witness ==
    \E t \in Threads :
        /\ rq[t].pc = "end"
        /\ rq[t].raised = "none"
        /\ Len(rq[t].body) = 2
        /\ rq[t].body[1] # rq[t].body[2]
        /\ Len(rq[t].log_calls) = 1

\* the text between the first '{' and the last '}' is a JSON object
Parsable(raw_text) ==
    /\ Find(raw_text, "{") # -1
    /\ RFind(raw_text, "}") # -1
    /\ json_loads(Slice(raw_text, Find(raw_text, "{"), RFind(raw_text, "}") + 1)).ok

LeadData(raw_text) ==
    json_loads(Slice(raw_text, Find(raw_text, "{"), RFind(raw_text, "}") + 1)).value

Logged(r) == r.pc = "end" /\ r.summarized /\ r.sink_up

\* C7: when the summarisation output holds no parsable JSON object and the
\* spreadsheet accepts rows, the logger still appends one row, with "N/A" for
\* the fields it could not read.
C7_UnparsableStillLogged ==
    \A t \in Threads :
        (Logged(rq[t]) /\ ~Parsable(rq[t].raw_text))
        => /\ Len(rq[t].rows) = 1
           /\ rq[t].rows[1][3] = NA
           /\ rq[t].rows[1][4] = NA

Blank(d, key) == key \notin DOMAIN d \/ d[key] \in {NONE, ""}

\* C8: a row is appended only when some lead field is non-null and non-empty:
\* none when every field is null or empty, and exactly one, with contact
\* "N/A", when the summary is non-empty and the contact is null.
C8_RowOnlyForNonEmptyLead ==
    \A t \in Threads :
        (Logged(rq[t]) /\ Parsable(rq[t].raw_text))
        => LET d == LeadData(rq[t].raw_text) IN
           /\ (\A key \in FieldKeys : Blank(d, key)) => rq[t].rows = <<>>
           /\ (~Blank(d, "summary") /\ Blank(d, "contact"))
              => /\ Len(rq[t].rows) = 1
                 /\ rq[t].rows[1][3] = NA

\* C10: when the generation call or the iteration raises after k fragments
\* went out, the body is those k fragments and then the apology, nothing
\* else; the logger is not called and nothing of the exception is sent.
C10_ErrorEndsWithApology ==
    \A t \in Threads :
        LET r == rq[t]
            k == Len(r.body) - 1
            sent == SubSeq(r.body, 1, k)
        IN /\ r.pc = "except247"
              => /\ Flatten(r.body) = r.full_response_text
                 /\ r.log_calls = <<>>
           /\ (r.pc = "end" /\ r.raised # "none")
              => /\ k >= 0
                 /\ r.body[k + 1] = APOLOGY
                 /\ \A i \in 1..k : sent[i] \in Fragments \ {<<>>}
                 /\ Flatten(sent) = r.full_response_text
                 /\ r.log_calls = <<>>
                 /\ r.rows = <<>>

\* C10 witness: the stream raised after one fragment had gone out.
C10_Witness ==
    \E t \in Threads :
        /\ rq[t].pc = "end"
        /\ rq[t].raised = "stream"
        /\ Len(rq[t].body) = 2
        /\ rq[t].body[1] = <<"b", "c">>

====
